---- MODULE Spec2Model ----
(***************************************************************************)
(* Library circulation: books, loans, fine policies and the loan manager   *)
(* (GestorPrestamos) of app.py.                                            *)
(*                                                                         *)
(* Time is counted in ticks, TicksPorDia ticks to the day; datetime.now()  *)
(* reads the variable reloj.  Prestamo objects live in the sequence        *)
(* objetos (a Prestamo is identified by its index, 0 stands for None) and  *)
(* every manager keeps the indices of its own loans in prestamos.          *)
(***************************************************************************)
EXTENDS Integers, Sequences, FiniteSets, TLC

\* ---- bounds of the model ----
TicksPorDia == 2
MaxPrestamos == 2
MaxTicks == 1
MaxPeriodos == 1
MaxDeriva == 1
MaxDias == 40

\* ---- program constants ----
DiasPrestamo == 14
DiasSimulados == 3

Libros == {"libro1", "libro2"}
Usuarios == {"usuario1", "usuario2"}
Gestores == {"gestor_regular", "gestor_estudiante", "gestor_vip"}
Politicas == {"MultaEstandar", "MultaEstudiante", "MultaVIP"}

nombre(u) == IF u = "usuario1" THEN "Ana Garcia" ELSE "Carlos Lopez"

calculadora_multa(g) ==
    CASE g = "gestor_regular" -> "MultaEstandar"
      [] g = "gestor_estudiante" -> "MultaEstudiante"
      [] OTHER -> "MultaVIP"

VARIABLES disponible, objetos, prestamos, reloj, last

vars == <<disponible, objetos, prestamos, reloj, last>>

Range(f) == {f[i] : i \in DOMAIN f}

\* ---- pure parts of the code ----

timedelta(dias) == dias * TicksPorDia

\* the reach of the clock: MaxPeriodos loan periods and MaxTicks ticks more
Periodo == timedelta(DiasPrestamo)
Ticks(t) == t % Periodo

\* timedelta.days of a difference of two datetimes
days(delta) == delta \div TicksPorDia

calcularRoto(politica, dias_retraso) ==
    CASE politica = "MultaEstandar" -> dias_retraso * 5
      [] politica = "MultaEstudiante" -> dias_retraso * 10
      [] OTHER -> dias_retraso

calcular(politica, dias_retraso) ==
    CASE politica = "MultaEstandar" -> dias_retraso * 10
      [] politica = "MultaEstudiante" -> dias_retraso * 5
      [] OTHER -> 0

PrestamoYaDevuelto(libro, usuario, ahora1, ahora2) ==
    [libro |-> libro, usuario |-> usuario, fecha_prestamo |-> ahora1,
     fecha_devolucion |-> ahora2 + timedelta(DiasPrestamo), devuelto |-> TRUE]

\* Prestamo.__init__: ahora1 and ahora2 are its two readings of the clock
Prestamo(libro, usuario, ahora1, ahora2) ==
    [libro |-> libro, usuario |-> usuario, fecha_prestamo |-> ahora1,
     fecha_devolucion |-> ahora2 + timedelta(DiasPrestamo), devuelto |-> FALSE]

NoDisponibleNunca(libro) == FALSE

\* realizar_prestamo: "if not libro.disponible"
NoDisponible(libro) == ~disponible[libro]

YaDevueltoNunca(p) == FALSE

\* devolver_libro: "if prestamo.devuelto"
YaDevuelto(p) == objetos[p].devuelto

ConRetrasoSiempre(fecha_actual, fecha_devolucion) == TRUE

ConRetrasoNoEstricto(fecha_actual, fecha_devolucion) ==
    fecha_actual >= fecha_devolucion

\* devolver_libro: "if fecha_actual > prestamo.fecha_devolucion"
ConRetraso(fecha_actual, fecha_devolucion) == fecha_actual > fecha_devolucion

DiasRetrasoRedondeado(fecha_actual, fecha_devolucion) ==
    days(fecha_actual - fecha_devolucion + TicksPorDia - 1)

\* devolver_libro: "(fecha_actual - prestamo.fecha_devolucion).days"
DiasRetraso(fecha_actual, fecha_devolucion) ==
    days(fecha_actual - fecha_devolucion)

OcuparNada(disp, libro) == disp

\* realizar_prestamo: "libro.disponible = False"
Ocupar(disp, libro) == [disp EXCEPT ![libro] = FALSE]

LiberarNada(disp, libro) == disp

\* devolver_libro: "prestamo.libro.disponible = True"
Liberar(disp, libro) == [disp EXCEPT ![libro] = TRUE]

\* devolver_libro: "prestamo.devuelto = True"
MarcarDevuelto(objs, p) == [objs EXCEPT ![p].devuelto = TRUE]

\* ---- what the last call returned, reported and invoked ----
\* prestamo: the Prestamo returned (0 for None) or handed in; calc: the
\* invocations of calculadora_multa.calcular; multa: the fines printed;
\* envios: the calls of notificador.enviar

Ninguna ==
    [op |-> "ninguna", prestamo |-> 0, exito |-> FALSE,
     calc |-> <<>>, multa |-> <<>>, envios |-> <<>>]

Init ==
    /\ disponible = [l \in Libros |-> TRUE]
    /\ objetos = <<>>
    /\ prestamos = [g \in Gestores |-> <<>>]
    /\ reloj = 0
    /\ last = Ninguna

\* ---- operations ----

RegistrarAlInicio(lista, p) == <<p>> \o lista

\* realizar_prestamo: "self.prestamos.append(prestamo)"
Registrar(lista, p) == Append(lista, p)

\* Notificador.enviar returns a boolean: True in NotificadorEmail and
\* NotificadorSMS, either value in another Notificador
ResultadosEnviar == BOOLEAN

NotificarConReintento(usuario, entregado, libro_disponible, en_lista) ==
    LET envio == [destinatario |-> nombre(usuario), entregado |-> entregado,
                  libro_disponible |-> libro_disponible,
                  en_lista |-> en_lista]
    IN  IF entregado THEN <<envio>> ELSE <<envio, envio>>

\* realizar_prestamo: "self.notificador.enviar(mensaje, usuario.nombre)";
\* every call is recorded with its recipient, its result, and what the book
\* and the loan list were when it was made
Notificar(usuario, entregado, libro_disponible, en_lista) ==
    <<[destinatario |-> nombre(usuario), entregado |-> entregado,
       libro_disponible |-> libro_disponible, en_lista |-> en_lista]>>

\* GestorPrestamos.realizar_prestamo(libro, usuario) on manager g; the clock
\* advances by deriva between the two readings of Prestamo.__init__
realizar_prestamo(g, libro, usuario, deriva) ==
    IF NoDisponible(libro)
    THEN /\ last' = [Ninguna EXCEPT !.op = "realizar_prestamo"]
         /\ UNCHANGED <<disponible, objetos, prestamos, reloj>>
    ELSE /\ Len(objetos) < MaxPrestamos
         /\ Ticks(reloj) + deriva <= MaxTicks
         /\ disponible' = Ocupar(disponible, libro)
         /\ objetos' = Append(objetos,
                              Prestamo(libro, usuario, reloj, reloj + deriva))
         /\ prestamos' = [prestamos EXCEPT
                            ![g] = Registrar(@, Len(objetos) + 1)]
         /\ reloj' = reloj + deriva
         /\ \E entregado \in ResultadosEnviar :
              last' = [Ninguna EXCEPT !.op = "realizar_prestamo",
                         !.prestamo = Len(objetos) + 1, !.exito = TRUE,
                         !.envios =
                            Notificar(usuario, entregado,
                                      Ocupar(disponible, libro)[libro],
                                      Len(objetos) + 1 \in Range(
                                        Registrar(prestamos[g],
                                                  Len(objetos) + 1)))]

\* GestorPrestamos.devolver_libro(prestamo) on manager g
devolver_libro(g, p) ==
    IF YaDevuelto(p)
    THEN /\ last' = [Ninguna EXCEPT !.op = "devolver_libro", !.prestamo = p]
         /\ UNCHANGED <<disponible, objetos, prestamos, reloj>>
    ELSE LET fecha_actual == reloj
             retraso == ConRetraso(fecha_actual, objetos[p].fecha_devolucion)
             dias_retraso ==
                 DiasRetraso(fecha_actual, objetos[p].fecha_devolucion)
             multa == calcular(calculadora_multa(g), dias_retraso)
         IN  /\ objetos' = MarcarDevuelto(objetos, p)
             /\ disponible' = Liberar(disponible, objetos[p].libro)
             /\ last' = [Ninguna EXCEPT !.op = "devolver_libro",
                            !.prestamo = p, !.exito = TRUE,
                            !.calc = IF retraso
                                     THEN <<[politica |-> calculadora_multa(g),
                                             dias_retraso |-> dias_retraso]>>
                                     ELSE <<>>,
                            !.multa = IF retraso THEN <<multa>> ELSE <<>>]
             /\ UNCHANGED <<prestamos, reloj>>

\* main: "prestamo1.fecha_devolucion = datetime.now() - timedelta(days=3)"
simular_retraso(p) ==
    /\ ~objetos[p].devuelto
    /\ objetos' = [objetos EXCEPT
                     ![p].fecha_devolucion = reloj - timedelta(DiasSimulados)]
    /\ last' = [Ninguna EXCEPT !.op = "simular_retraso", !.prestamo = p]
    /\ UNCHANGED <<disponible, prestamos, reloj>>

\* time passes between two calls: one tick, or a whole loan period
Saltos == {1, Periodo}

pasa_el_tiempo(salto) ==
    /\ IF salto = Periodo THEN reloj < Periodo * MaxPeriodos
                           ELSE Ticks(reloj) + salto <= MaxTicks
    /\ reloj' = reloj + salto
    /\ last' = Ninguna
    /\ UNCHANGED <<disponible, objetos, prestamos>>

Next ==
    \/ \E g \in Gestores, l \in Libros, u \in Usuarios, d \in 0..MaxDeriva :
          realizar_prestamo(g, l, u, d)
    \/ \E g \in Gestores, p \in 1..Len(objetos) : devolver_libro(g, p)
    \/ \E p \in 1..Len(objetos) : simular_retraso(p)
    \/ \E salto \in Saltos : pasa_el_tiempo(salto)

Spec == Init /\ [][Next]_vars

\* ---- the fine policies on their own ----

calcular_multa(politica, dias_retraso) ==
    /\ last' = [Ninguna EXCEPT !.op = "calcular", !.exito = TRUE,
                   !.calc = <<[politica |-> politica,
                               dias_retraso |-> dias_retraso]>>,
                   !.multa = <<calcular(politica, dias_retraso)>>]
    /\ UNCHANGED <<disponible, objetos, prestamos, reloj>>

NextMulta ==
    \E politica \in Politicas, d \in 0..MaxDias : calcular_multa(politica, d)

SpecMulta == Init /\ [][NextMulta]_vars

TypeOK ==
    /\ disponible \in [Libros -> BOOLEAN]
    /\ reloj \in 0..(Periodo * MaxPeriodos + MaxTicks)
    /\ Len(objetos) <= MaxPrestamos
    /\ \A p \in 1..Len(objetos) :
          objetos[p].libro \in Libros /\ objetos[p].usuario \in Usuarios

\* ---- helpers of the properties ----

Ids == 1..Len(objetos)
Activo(p) == ~objetos[p].devuelto
Vence(p) == objetos[p].fecha_devolucion
DevueltoAhora == last.op = "devolver_libro" /\ last.exito
Tarifa(politica) ==
    CASE politica = "MultaEstandar" -> 10
      [] politica = "MultaEstudiante" -> 5
      [] OTHER -> 0

\* C1: a book referenced by a loan that has not been returned is not
\* available, whichever managers the calls went through.
DisponibleFalsoConPrestamoActivo ==
    \A p \in Ids : Activo(p) => ~disponible[objetos[p].libro]

\* a book lent again by another manager after its first loan was returned
W_LibroPrestadoDeNuevo ==
    \E p, q \in Ids : \E g, h \in Gestores :
        /\ g # h /\ p \in Range(prestamos[g]) /\ q \in Range(prestamos[h])
        /\ objetos[p].libro = objetos[q].libro
        /\ objetos[p].devuelto /\ Activo(q)

\* C2: realizar_prestamo on an available book succeeds: the book becomes
\* unavailable and the result is a new loan of that book to that user that
\* has not been returned.
PrestamoDeLibroDisponible ==
    [][\A g \in Gestores, l \in Libros, u \in Usuarios, d \in 0..MaxDeriva :
          (disponible[l] /\ realizar_prestamo(g, l, u, d)) =>
             /\ last'.exito
             /\ last'.prestamo = Len(objetos) + 1
             /\ Len(objetos') = Len(objetos) + 1
             /\ ~disponible'[l]
             /\ objetos'[last'.prestamo].libro = l
             /\ objetos'[last'.prestamo].usuario = u
             /\ ~objetos'[last'.prestamo].devuelto]_vars

W_PrestamoRealizado ==
    /\ last.op = "realizar_prestamo" /\ last.exito
    /\ last.prestamo = 2
    /\ objetos[2].libro = "libro2" /\ objetos[2].usuario = "usuario2"
    /\ ~disponible["libro2"]

\* C3: realizar_prestamo on an unavailable book returns None and changes
\* nothing: no book, no loan, no loan list, and nothing is sent.
PrestamoDeLibroNoDisponible ==
    [][\A g \in Gestores, l \in Libros, u \in Usuarios, d \in 0..MaxDeriva :
          (~disponible[l] /\ realizar_prestamo(g, l, u, d)) =>
             /\ ~last'.exito
             /\ last'.prestamo = 0
             /\ last'.envios = <<>>
             /\ UNCHANGED <<disponible, objetos, prestamos>>]_vars

W_PrestamoRechazado ==
    /\ last.op = "realizar_prestamo" /\ ~last.exito
    /\ \E l \in Libros : ~disponible[l]
    /\ Len(objetos) = 1

\* C4: devolver_libro on a loan that was already returned is rejected and
\* changes neither the loan nor its book, also when the book is out again
\* under a newer loan.
SegundaDevolucionRechazada ==
    [][\A g \in Gestores, p \in Ids :
          (objetos[p].devuelto /\ devolver_libro(g, p)) =>
             /\ ~last'.exito
             /\ last'.calc = <<>> /\ last'.multa = <<>>
             /\ UNCHANGED <<disponible, objetos, prestamos>>]_vars

W_SegundaDevolucion ==
    /\ last.op = "devolver_libro" /\ ~last.exito
    /\ last.prestamo \in Ids
    /\ ~disponible[objetos[last.prestamo].libro]
    /\ \E q \in Ids : Activo(q) /\ objetos[q].libro = objetos[last.prestamo].libro

\* C5: devolver_libro on a loan that has not been returned leaves the loan
\* returned and its book available, on time or late, under every policy.
DevolucionMarcaYLibera ==
    [][\A g \in Gestores, p \in Ids :
          (Activo(p) /\ devolver_libro(g, p)) =>
             /\ last'.exito
             /\ objetos'[p].devuelto
             /\ disponible'[objetos[p].libro]]_vars

W_DevolucionTardiaVIP ==
    /\ DevueltoAhora
    /\ Len(last.calc) = 1 /\ last.calc[1].politica = "MultaVIP"
    /\ objetos[last.prestamo].devuelto
    /\ disponible[objetos[last.prestamo].libro]

\* C6: a loan is created with devuelto false, devuelto turns true only in a
\* successful devolver_libro of that loan, and once true it stays true.
DevueltoEsTerminal ==
    [][/\ \A p \in Ids : objetos[p].devuelto => objetos'[p].devuelto
       /\ \A p \in Ids : (Activo(p) /\ objetos'[p].devuelto) =>
             (last'.op = "devolver_libro" /\ last'.exito /\ last'.prestamo = p)
       /\ \A p \in (Len(objetos) + 1)..Len(objetos') :
             ~objetos'[p].devuelto]_vars

W_DevueltoYOtroPrestamo ==
    /\ Len(objetos) = 2
    /\ objetos[1].devuelto /\ Activo(2)
    /\ last.op = "simular_retraso" /\ last.prestamo = 2

\* C7: for every count of days the standard policy gives ten times the days,
\* the student policy five times and the VIP policy 0: all give 0 for 0 days
\* and 30, 15 and 0 for 3 days.
MultaPorPolitica ==
    last.op = "calcular" =>
        LET politica == last.calc[1].politica
            dias == last.calc[1].dias_retraso
            multa == last.multa[1]
        IN  /\ Len(last.multa) = 1
            /\ politica = "MultaEstandar" => multa = dias * 10
            /\ politica = "MultaEstudiante" => multa = dias * 5
            /\ politica = "MultaVIP" => multa = 0
            /\ dias = 0 => multa = 0
            /\ dias = 3 => multa = CASE politica = "MultaEstandar" -> 30
                                     [] politica = "MultaEstudiante" -> 15
                                     [] OTHER -> 0

W_MultaDeTresDias ==
    /\ last.op = "calcular"
    /\ last.calc = <<[politica |-> "MultaEstudiante", dias_retraso |-> 3]>>
    /\ last.multa = <<15>>

\* C8: a return at or before the due time, the due time itself included, is
\* on time: calcular is not invoked, no fine is printed, and the book is
\* available again.
DevolucionATiempoSinMulta ==
    [][\A g \in Gestores, p \in Ids :
          (Activo(p) /\ reloj <= Vence(p) /\ devolver_libro(g, p)) =>
             /\ last'.calc = <<>>
             /\ last'.multa = <<>>
             /\ disponible'[objetos[p].libro]]_vars

\* a return at the very tick the loan falls due
W_DevolucionEnElVencimiento ==
    /\ DevueltoAhora
    /\ reloj = Vence(last.prestamo)
    /\ last.calc = <<>>

\* C9: a return after the due time invokes the manager's policy once, with
\* the whole days elapsed since the due time, and prints that policy's
\* result; three days late under the standard policy the fine is 30.
DevolucionTardiaConMulta ==
    [][\A g \in Gestores, p \in Ids :
          (Activo(p) /\ reloj > Vence(p) /\ devolver_libro(g, p)) =>
             LET delta == reloj - Vence(p)
             IN  /\ Len(last'.calc) = 1
                 /\ last'.calc[1].politica = calculadora_multa(g)
                 /\ last'.calc[1].dias_retraso * TicksPorDia <= delta
                 /\ delta < (last'.calc[1].dias_retraso + 1) * TicksPorDia
                 /\ last'.multa =
                      <<Tarifa(calculadora_multa(g))
                          * last'.calc[1].dias_retraso>>
                 /\ (/\ g = "gestor_regular"
                     /\ delta >= timedelta(DiasSimulados)
                     /\ delta < timedelta(DiasSimulados + 1))
                       => last'.multa = <<30>>
                 /\ disponible'[objetos[p].libro]]_vars

W_MultaTreinta ==
    /\ DevueltoAhora
    /\ last.calc = <<[politica |-> "MultaEstandar", dias_retraso |-> 3]>>
    /\ last.multa = <<30>>
    /\ reloj - Vence(last.prestamo) = timedelta(DiasSimulados) + 1
    /\ disponible[objetos[last.prestamo].libro]

\* C10: every loan is created with fecha_devolucion exactly 14 days after
\* its own fecha_prestamo, also when the clock advances during __init__.
VenceCatorceDiasDespues ==
    [][\A p \in (Len(objetos) + 1)..Len(objetos') :
          objetos'[p].fecha_devolucion - objetos'[p].fecha_prestamo
             = timedelta(DiasPrestamo)]_vars

\* C11: a successful realizar_prestamo calls enviar once, to the borrower's
\* name, with the book already unavailable and the loan already in the
\* manager's list; whatever enviar returns, the book stays unavailable, the
\* loan stays in the list unreturned, and the loan is returned to the caller.
UnEnvioSinEfectoEnElPrestamo ==
    [][\A g \in Gestores, l \in Libros, u \in Usuarios, d \in 0..MaxDeriva :
          (disponible[l] /\ realizar_prestamo(g, l, u, d)) =>
             /\ Len(last'.envios) = 1
             /\ last'.envios[1].destinatario = nombre(u)
             /\ ~last'.envios[1].libro_disponible
             /\ last'.envios[1].en_lista
             /\ ~disponible'[l]
             /\ last'.prestamo = Len(objetos) + 1
             /\ last'.prestamo \in Range(prestamos'[g])
             /\ ~objetos'[last'.prestamo].devuelto]_vars

\* a checkout whose notification was reported as not delivered
W_EnvioFallido ==
    /\ last.op = "realizar_prestamo" /\ last.exito
    /\ Len(last.envios) = 1 /\ ~last.envios[1].entregado
    /\ last.envios[1].destinatario = "Carlos Lopez"
    /\ ~disponible[objetos[last.prestamo].libro]
    /\ \E g \in Gestores : last.prestamo \in Range(prestamos[g])
    /\ Activo(last.prestamo)

\* C12: the devuelto flag of a loan in a manager's list and the disponible
\* flag of that loan's book change only in calls on that same manager.
SoloSuGestorMuta ==
    [][\A g \in Gestores : \A p \in Range(prestamos[g]) :
          (\/ objetos'[p].devuelto # objetos[p].devuelto
           \/ disponible'[objetos[p].libro] # disponible[objetos[p].libro])
          => \/ \E l \in Libros, u \in Usuarios, d \in 0..MaxDeriva :
                   realizar_prestamo(g, l, u, d)
             \/ \E q \in Ids : devolver_libro(g, q)]_vars

\* C13: every call of calcular made by devolver_libro gets a number of days
\* that is an integer and not negative.
DiasRetrasoNoNegativo ==
    last.op = "devolver_libro" =>
        \A i \in 1..Len(last.calc) :
            /\ last.calc[i].dias_retraso \in Int
            /\ last.calc[i].dias_retraso >= 0

\* a fine for a loan whose due date was forced back a loan period ago
W_DiecisieteDias ==
    /\ DevueltoAhora
    /\ Len(last.calc) = 1
    /\ last.calc[1].dias_retraso = DiasPrestamo + DiasSimulados
    /\ reloj > Vence(last.prestamo)

\* C14: no two different loans that have not been returned are loans of the
\* same book, over the lists of all managers.
UnPrestamoActivoPorLibro ==
    \A p, q \in Ids :
        (p # q /\ Activo(p) /\ Activo(q)) =>
            objetos[p].libro # objetos[q].libro

\* two books out at once, lent by two managers
W_DosPrestamosActivos ==
    /\ Len(objetos) = 2 /\ Activo(1) /\ Activo(2)
    /\ \E g, h \in Gestores :
          g # h /\ prestamos[g] = <<1>> /\ prestamos[h] = <<2>>

\* C15: a book is unavailable only if a loan of it has not been returned, so
\* a book is available exactly when it has no unreturned loan.
DisponibleSiSinPrestamoActivo ==
    \A l \in Libros :
        disponible[l] <=> ~\E p \in Ids : Activo(p) /\ objetos[p].libro = l

\* a book back on the shelf with all its loans returned
W_LibroDeVuelta ==
    /\ Len(objetos) = 2
    /\ objetos[1].libro = "libro1" /\ objetos[2].libro = "libro1"
    /\ objetos[1].devuelto /\ objetos[2].devuelto
    /\ disponible["libro1"]

\* C16: a manager's list only grows at its end: a successful
\* realizar_prestamo appends the new loan to the list of its manager, and a
\* rejected one and every devolver_libro leave all lists as they were; so
\* every loan ever created is in exactly one list, once, in order of creation.
ListaDePrestamosSoloCrece ==
    /\ [](/\ \A p \in Ids :
               Cardinality({x \in Gestores \X Ids :
                              /\ x[2] <= Len(prestamos[x[1]])
                              /\ prestamos[x[1]][x[2]] = p}) = 1
          /\ \A g \in Gestores : \A i, j \in 1..Len(prestamos[g]) :
               i < j => prestamos[g][i] < prestamos[g][j])
    /\ [][\A g \in Gestores :
            /\ \A l \in Libros, u \in Usuarios, d \in 0..MaxDeriva :
                 realizar_prestamo(g, l, u, d) =>
                    IF disponible[l]
                    THEN prestamos' =
                           [prestamos EXCEPT
                              ![g] = Append(@, Len(objetos) + 1)]
                    ELSE UNCHANGED prestamos
            /\ \A p \in Ids :
                 devolver_libro(g, p) => UNCHANGED prestamos]_vars

\* a list of two loans, the first returned, after a rejected second return
W_ListaConDevuelto ==
    /\ \E g \in Gestores : prestamos[g] = <<1, 2>>
    /\ objetos[1].devuelto
    /\ last.op = "devolver_libro" /\ ~last.exito /\ last.prestamo = 1

\* C17: a return after the due time but less than a day late takes the late
\* branch: calcular is called with 0 days, the fine printed is 0 under every
\* policy, and the loan is returned and its book available.
RetrasoDeMenosDeUnDia ==
    [][\A g \in Gestores, p \in Ids :
          (/\ Activo(p)
           /\ reloj > Vence(p) /\ reloj - Vence(p) < TicksPorDia
           /\ devolver_libro(g, p)) =>
             /\ last'.calc = <<[politica |-> calculadora_multa(g),
                                dias_retraso |-> 0]>>
             /\ last'.multa = <<0>>
             /\ objetos'[p].devuelto
             /\ disponible'[objetos[p].libro]]_vars

W_UnTickTarde ==
    /\ DevueltoAhora
    /\ reloj = Vence(last.prestamo) + 1
    /\ last.calc = <<[politica |-> "MultaEstandar", dias_retraso |-> 0]>>
    /\ last.multa = <<0>>
    /\ disponible[objetos[last.prestamo].libro]

====
